---- MODULE Spec2Model ----
(***************************************************************************)
(* Model of the VISADevice instrument-session core (VISADevice.h).         *)
(*                                                                         *)
(* The object's data members are the variables initialized_, open_,        *)
(* session_, device_, termChar_, timeout_, closeCmd_ and lastError_.       *)
(* The VISA driver is modelled by the set of device handles it has opened  *)
(* and not released (live) and whether the resource-manager session exists *)
(* (sessionLive).  A handle is an opaque number; the driver gives a new    *)
(* device the smallest number it does not hold.                            *)
(* Every public member function is one action; the status of each driver   *)
(* call it makes is an input of the action.  lastOp records the most       *)
(* recent call: its name, its argument, its return value and the driver    *)
(* calls it made, in order.                                                *)
(*                                                                         *)
(* Strings sent to and received from the device are sequences of byte      *)
(* values.  lastError_ holds diagnostic text, modelled as a TLA+ string.   *)
(*                                                                         *)
(* The second part models the adapter BK9130B (BK9130B.cpp), which owns a  *)
(* core dev_: its data members are adapter_initialized_, activeChannel_,   *)
(* activeChannelState_, outputVoltage_ and outputCurrent_;                 *)
(* propertiesCreated tells whether Initialize() has registered the         *)
(* property callbacks, and adapterOp records the most recent adapter call. *)
(* Spec is the core used directly; AdapterSpec is the core used through    *)
(* the adapter.                                                            *)
(***************************************************************************)
EXTENDS Integers, Sequences, FiniteSets, TLC

VARIABLES initialized_, open_, session_, device_, termChar_, timeout_,
          closeCmd_, lastError_,
          sessionLive, live,
          lastOp,
          adapter_initialized_, activeChannel_, activeChannelState_,
          outputVoltage_, outputCurrent_, propertiesCreated, adapterOp

objVars == <<initialized_, open_, session_, device_, termChar_, timeout_,
             closeCmd_, lastError_>>
drvVars == <<sessionLive, live>>
adapterVars == <<adapter_initialized_, activeChannel_, activeChannelState_,
                 outputVoltage_, outputCurrent_, propertiesCreated,
                 adapterOp>>
vars == <<initialized_, open_, session_, device_, termChar_, timeout_,
          closeCmd_, lastError_, sessionLive, live, lastOp,
          adapter_initialized_, activeChannel_, activeChannelState_,
          outputVoltage_, outputCurrent_, propertiesCreated, adapterOp>>

(***************************************************************************)
(* Bounds of the model.                                                    *)
(***************************************************************************)
\* number of device handles the driver holds at one time
MaxHandles == 2
\* largest number of resources a discovery reports
MaxMatches == 2

(***************************************************************************)
(* Program constants and the values the inputs are drawn from.             *)
(***************************************************************************)
VI_SUCCESS == 0
\* ViStatus values the driver returns: a hard error (negative), plain
\* success, a warning (positive).  The constructor's call draws from all
\* three; the other calls draw from the first two.
AllStatuses == {-1, 0, 1}
Statuses == {-1, 0}
\* the session handle viOpenDefaultRM produces
RMSession == 0
\* an indeterminate handle value (a member that was never assigned)
GarbageHandle == -1
\* byte values
SEMI == 59
LF == 10
CR == 13
\* terminators a device reports through VI_ATTR_TERMCHAR
TermChars == {LF, CR}
\* indeterminate contents of termChar_ before the first successful fetch
GarbageTermChars == {0, LF}
\* timeouts passed to open(); 2000 is the default argument
Timeouts == {500, 2000}
\* indeterminate contents of timeout_ before the first open()
GarbageTimeouts == {0}
\* messages ("A", "BC")
Msgs == {<<65>>, <<66, 67>>}
\* command lists for the vector overloads ([], ["A"], ["A", "B"])
CmdLists == {<< >>, <<(<<65>>)>>, <<(<<65>>), (<<66>>)>>}
\* close commands registered through onClose(string)
CloseCmds == {<< >>, <<79>>}
EmptyStr == << >>
\* read(const ViUInt32 bufSize = 0x00000400)
DefaultReadSize == 1024
ATTR_MAX_LENGTH == 1024
VI_FIND_BUFLEN == 256
\* buffer sizes passed to read()
BufSizes == {1, DefaultReadSize}
\* data a device has pending when viRead is called
Replies == {<<49>>, <<50, 51>>}
\* indeterminate contents of an attribute buffer that was never written
GarbageStrs == {<<0>>, <<63, 0>>}
\* indeterminate bytes in the rest of the discovery buffer
GarbageFill == {0, 63}
\* orders of evaluation of three operands
Orders == {<<1, 2, 3>>, <<3, 1, 2>>}
\* outcomes of the three attribute fetches of getDeviceDescription
DescStatuses == {<<0, 0, 0>>, <<0, -1, 0>>, <<-1, -1, -1>>}


WARN_CLOSE == "[WARN]: failed to send onClose command!\n"
ERR_NEITHER == "Neither session nor device is initialized"

\* the text viStatusDesc produces for a status code
StatusDesc(status) == IF status = -1 THEN "VI_ERROR" ELSE "VI_STATUS"

(***************************************************************************)
(* The object and driver as one record, threaded through the operators     *)
(* that model the member functions.  ret is the value the function         *)
(* returned; calls is the sequence of driver calls made so far.            *)
(***************************************************************************)
Cur ==
    [initialized_ |-> initialized_, open_ |-> open_, session_ |-> session_,
     device_ |-> device_, termChar_ |-> termChar_, timeout_ |-> timeout_,
     closeCmd_ |-> closeCmd_, lastError_ |-> lastError_,
     sessionLive |-> sessionLive, live |-> live,
     calls |-> << >>, ret |-> FALSE]

Call(name, h, data, status) ==
    [call |-> name, h |-> h, data |-> data, st |-> status]

Log(c, name, h, data, status) ==
    [c EXCEPT !.calls = Append(@, Call(name, h, data, status))]

\* one public call is finished: the variables take the values in c
Done(name, arg, result) ==
    \E c \in {result} :
    /\ initialized_' = c.initialized_
    /\ open_' = c.open_
    /\ session_' = c.session_
    /\ device_' = c.device_
    /\ termChar_' = c.termChar_
    /\ timeout_' = c.timeout_
    /\ closeCmd_' = c.closeCmd_
    /\ lastError_' = c.lastError_
    /\ sessionLive' = c.sessionLive
    /\ live' = c.live
    /\ lastOp' = [name |-> name, arg |-> arg, ret |-> c.ret,
                  calls |-> c.calls]
    /\ UNCHANGED adapterVars

(***************************************************************************)
(* processStatus                                                           *)
(***************************************************************************)
\* processStatus as it would be if it asked the session for the description
\* whenever the session is initialized
processStatus_sessionFirst(c, status) ==
    IF status < VI_SUCCESS
    THEN IF c.open_ \/ c.initialized_
         THEN LET tmp == IF c.initialized_ THEN c.session_ ELSE c.device_
                  c1 == Log(c, "viStatusDesc", tmp, EmptyStr, status)
              IN [c1 EXCEPT !.lastError_ = StatusDesc(status), !.ret = FALSE]
         ELSE [c EXCEPT !.lastError_ = ERR_NEITHER, !.ret = FALSE]
    ELSE [c EXCEPT !.ret = TRUE]

\* processStatus as it would be if a success cleared the last error
processStatus_clearsOnSuccess(c, status) ==
    IF status < VI_SUCCESS
    THEN IF c.open_ \/ c.initialized_
         THEN LET tmp == IF c.open_ THEN c.device_ ELSE c.session_
                  c1 == Log(c, "viStatusDesc", tmp, EmptyStr, status)
              IN [c1 EXCEPT !.lastError_ = StatusDesc(status), !.ret = FALSE]
         ELSE [c EXCEPT !.lastError_ = ERR_NEITHER, !.ret = FALSE]
    ELSE [c EXCEPT !.ret = TRUE, !.lastError_ = ""]

processStatus(c, status) ==
    IF status < VI_SUCCESS
    THEN IF c.open_ \/ c.initialized_
         THEN LET tmp == IF c.open_ THEN c.device_ ELSE c.session_
                  c1 == Log(c, "viStatusDesc", tmp, EmptyStr, status)
              IN [c1 EXCEPT !.lastError_ = StatusDesc(status), !.ret = FALSE]
         ELSE [c EXCEPT !.lastError_ = ERR_NEITHER, !.ret = FALSE]
    ELSE [c EXCEPT !.ret = TRUE]

(***************************************************************************)
(* Driver calls.  A call whose status is not negative has taken effect.    *)
(***************************************************************************)
\* the handle the driver gives the next device it opens
NewHandle(held) ==
    CHOOSE h \in 1..(Cardinality(held) + 1) :
        h \notin held /\ \A g \in 1..(h - 1) : g \in held

viOpen(c, status) ==
    LET c1 == Log(c, "viOpen", c.session_, EmptyStr, status)
    IN IF status >= VI_SUCCESS
       THEN [c1 EXCEPT !.device_ = NewHandle(c.live),
                       !.live = c.live \cup {NewHandle(c.live)}]
       ELSE c1

viClose(c, h, status) ==
    LET c1 == Log(c, "viClose", h, EmptyStr, status)
    IN IF status >= VI_SUCCESS
       THEN [c1 EXCEPT !.live = c.live \ {h},
                       !.sessionLive = IF h = RMSession /\ c.session_ = RMSession
                                       THEN FALSE ELSE c.sessionLive]
       ELSE c1

viWrite(c, h, buf, status) == Log(c, "viWrite", h, buf, status)

\* the fetch of VI_ATTR_TERMCHAR into termChar_
viGetTermChar(c, status, tc) ==
    IF status >= VI_SUCCESS
    THEN [Log(c, "viGetAttribute", c.device_, <<tc>>, status)
             EXCEPT !.termChar_ = tc]
    ELSE Log(c, "viGetAttribute", c.device_, EmptyStr, status)

(***************************************************************************)
(* write                                                                   *)
(***************************************************************************)
\* write(ViByte* msg, ViUInt32 msgSize)
writeBuf(c, buf, status) ==
    IF c.initialized_ /\ c.open_
    THEN processStatus(viWrite(c, c.device_, buf, status), status)
    ELSE [c EXCEPT !.ret = FALSE]

\* write(const std::string& msg)
write(c, msg, status) == writeBuf(c, Append(msg, c.termChar_), status)

(***************************************************************************)
(* close                                                                   *)
(***************************************************************************)
\* close() as it would be if it returned open_ instead of !open_
close_returnsOpen(c, stWrite, stClose) ==
    IF c.open_
    THEN LET c1 == IF c.closeCmd_ # EmptyStr
                   THEN LET w == write(c, c.closeCmd_, stWrite)
                        IN IF ~w.ret
                           THEN [w EXCEPT !.lastError_ = WARN_CLOSE]
                           ELSE w
                   ELSE c
             c2 == processStatus(viClose(c1, c1.device_, stClose), stClose)
             c3 == IF c2.ret THEN [c2 EXCEPT !.open_ = FALSE] ELSE c2
         IN [c3 EXCEPT !.ret = c3.open_]
    ELSE [c EXCEPT !.ret = c.open_]

\* close() as it would be without the test of open_
close_noGuard(c, stWrite, stClose) ==
    LET c1 == IF c.closeCmd_ # EmptyStr
              THEN LET w == write(c, c.closeCmd_, stWrite)
                   IN IF ~w.ret
                      THEN [w EXCEPT !.lastError_ = WARN_CLOSE]
                      ELSE w
              ELSE c
        c2 == processStatus(viClose(c1, c1.device_, stClose), stClose)
        c3 == IF c2.ret THEN [c2 EXCEPT !.open_ = FALSE] ELSE c2
    IN [c3 EXCEPT !.ret = ~c3.open_]

\* close() as it would be if a failed close command ended the call
close_stopOnWriteFail(c, stWrite, stClose) ==
    IF c.open_
    THEN LET w == IF c.closeCmd_ # EmptyStr
                  THEN write(c, c.closeCmd_, stWrite)
                  ELSE [c EXCEPT !.ret = TRUE]
         IN IF ~w.ret
            THEN [w EXCEPT !.lastError_ = WARN_CLOSE, !.ret = FALSE]
            ELSE LET c2 == processStatus(viClose(w, w.device_, stClose),
                                         stClose)
                     c3 == IF c2.ret THEN [c2 EXCEPT !.open_ = FALSE] ELSE c2
                 IN [c3 EXCEPT !.ret = ~c3.open_]
    ELSE [c EXCEPT !.ret = ~c.open_]

\* close() as it would be if the handle were released before the close
\* command is written
close_releaseFirst(c, stWrite, stClose) ==
    IF c.open_
    THEN LET c1 == processStatus(viClose(c, c.device_, stClose), stClose)
             ok == c1.ret
             c2 == IF c1.closeCmd_ # EmptyStr
                   THEN LET w == write(c1, c1.closeCmd_, stWrite)
                        IN IF ~w.ret
                           THEN [w EXCEPT !.lastError_ = WARN_CLOSE]
                           ELSE w
                   ELSE c1
             c3 == IF ok THEN [c2 EXCEPT !.open_ = FALSE] ELSE c2
         IN [c3 EXCEPT !.ret = ~c3.open_]
    ELSE [c EXCEPT !.ret = ~c.open_]

\* close() as it would be if the close command were consumed by the close
close_clearsCmd(c, stWrite, stClose) ==
    IF c.open_
    THEN LET c1 == IF c.closeCmd_ # EmptyStr
                   THEN LET w == write(c, c.closeCmd_, stWrite)
                        IN IF ~w.ret
                           THEN [w EXCEPT !.lastError_ = WARN_CLOSE]
                           ELSE w
                   ELSE c
             c2 == processStatus(viClose(c1, c1.device_, stClose), stClose)
             c3 == IF c2.ret THEN [c2 EXCEPT !.open_ = FALSE] ELSE c2
         IN [c3 EXCEPT !.ret = ~c3.open_, !.closeCmd_ = EmptyStr]
    ELSE [c EXCEPT !.ret = ~c.open_]

close(c, stWrite, stClose) ==
    IF c.open_
    THEN LET c1 == IF c.closeCmd_ # EmptyStr
                   THEN LET w == write(c, c.closeCmd_, stWrite)
                        IN IF ~w.ret
                           THEN [w EXCEPT !.lastError_ = WARN_CLOSE]
                           ELSE w
                   ELSE c
             c2 == processStatus(viClose(c1, c1.device_, stClose), stClose)
             c3 == IF c2.ret THEN [c2 EXCEPT !.open_ = FALSE] ELSE c2
         IN [c3 EXCEPT !.ret = ~c3.open_]
    ELSE [c EXCEPT !.ret = ~c.open_]

(***************************************************************************)
(* open                                                                    *)
(***************************************************************************)
\* open() as it would be if it reported the outcome of viOpen and did not
\* close the device after a failed terminator fetch
open_ignoreFetch(c, timeout, stOpen, stAttr, tc, stWrite, stClose) ==
    LET c0 == [c EXCEPT !.timeout_ = timeout]
    IN IF c0.initialized_
       THEN LET c1 == processStatus(viOpen(c0, stOpen), stOpen)
            IN IF c1.ret
               THEN LET c2 == [c1 EXCEPT !.open_ = TRUE]
                        c3 == processStatus(viGetTermChar(c2, stAttr, tc),
                                            stAttr)
                    IN [c3 EXCEPT !.ret = TRUE]
               ELSE [c1 EXCEPT !.ret = FALSE]
       ELSE [c0 EXCEPT !.ret = FALSE]

open(c, timeout, stOpen, stAttr, tc, stWrite, stClose) ==
    LET c0 == [c EXCEPT !.timeout_ = timeout]
    IN IF c0.initialized_
       THEN LET c1 == processStatus(viOpen(c0, stOpen), stOpen)
            IN IF c1.ret
               THEN LET c2 == [c1 EXCEPT !.open_ = TRUE]
                        c3 == processStatus(viGetTermChar(c2, stAttr, tc),
                                            stAttr)
                    IN IF ~c3.ret
                       THEN [close(c3, stWrite, stClose) EXCEPT !.ret = FALSE]
                       ELSE [c3 EXCEPT !.ret = TRUE]
               ELSE [c1 EXCEPT !.ret = FALSE]
       ELSE [c0 EXCEPT !.ret = FALSE]

(***************************************************************************)
(* getLastError, onClose, join, getCmdSeperator                            *)
(***************************************************************************)
\* getLastError as it would be if it did not clear the error
getLastError_keeps(c) == [c EXCEPT !.ret = c.lastError_]

getLastError(c) == [c EXCEPT !.ret = c.lastError_, !.lastError_ = ""]

RECURSIVE joinFrom(_, _, _, _, _)
\* the loop of join: result so far, addSep, position of the iterator
joinFrom(list, sep, k, addSep, result) ==
    IF k > Len(list)
    THEN result
    ELSE joinFrom(list, sep, k + 1, TRUE,
                  (IF addSep THEN result \o sep ELSE result) \o list[k])

\* join as it would be if the separator followed every element
join_trailingSep(list, sep) ==
    IF list = << >> THEN EmptyStr
    ELSE joinFrom(list, sep, 1, FALSE, EmptyStr) \o sep

join(list, sep) == joinFrom(list, sep, 1, FALSE, EmptyStr)

getCmdSeperator(c) == <<SEMI, c.termChar_>>

\* onClose(const std::string& cmd)
onClose(c, cmd) == [c EXCEPT !.closeCmd_ = cmd]

\* onClose(const std::vector<std::string>& cmds)
onCloseList(c, cmds) ==
    [c EXCEPT !.closeCmd_ = join(cmds, getCmdSeperator(c))]

\* write(const std::vector<std::string>& list)
writeList(c, list, status) == write(c, join(list, getCmdSeperator(c)), status)

(***************************************************************************)
(* read and query                                                          *)
(***************************************************************************)
Min(a, b) == IF a < b THEN a ELSE b

\* viRead: the device has data pending; the driver stores at most bufSize
\* bytes of it and reports how many it stored
viRead(c, h, bufSize, status, data) ==
    Log(c, "viRead", h,
        IF status >= VI_SUCCESS
        THEN SubSeq(data, 1, Min(Len(data), bufSize)) ELSE EmptyStr,
        status)

\* read as it would be if it returned the whole buffer
read_wholeBuffer(c, bufSize, status, data) ==
    IF c.initialized_ /\ c.open_
    THEN LET c1 == processStatus(viRead(c, c.device_, bufSize, status, data),
                                 status)
             retSize == Min(Len(data), bufSize)
         IN IF c1.ret
            THEN [c1 EXCEPT !.ret = [i \in 1..bufSize |->
                                       IF i <= retSize THEN data[i] ELSE 0]]
            ELSE [c1 EXCEPT !.ret = EmptyStr]
    ELSE [c EXCEPT !.ret = EmptyStr]

\* read as it would be if it tested the session alone
read_sessionOnly(c, bufSize, status, data) ==
    IF c.initialized_
    THEN LET c1 == processStatus(viRead(c, c.device_, bufSize, status, data),
                                 status)
             retSize == Min(Len(data), bufSize)
         IN IF c1.ret
            THEN [c1 EXCEPT !.ret = SubSeq(data, 1, retSize)]
            ELSE [c1 EXCEPT !.ret = EmptyStr]
    ELSE [c EXCEPT !.ret = EmptyStr]

read(c, bufSize, status, data) ==
    IF c.initialized_ /\ c.open_
    THEN LET c1 == processStatus(viRead(c, c.device_, bufSize, status, data),
                                 status)
             retSize == Min(Len(data), bufSize)
         IN IF c1.ret
            THEN [c1 EXCEPT !.ret = SubSeq(data, 1, retSize)]
            ELSE [c1 EXCEPT !.ret = EmptyStr]
    ELSE [c EXCEPT !.ret = EmptyStr]

\* the blocking sleep_for(milliseconds(timeout_))
sleep(c) == Log(c, "sleep", c.timeout_, EmptyStr, VI_SUCCESS)

\* query as it would be if it did not test the result of the write
query_alwaysReads(c, msg, stWrite, stRead, data) ==
    read(sleep(write(c, msg, stWrite)), DefaultReadSize, stRead, data)

\* query as it would be if the read came before the delay
query_readBeforeDelay(c, msg, stWrite, stRead, data) ==
    LET w == write(c, msg, stWrite)
    IN IF w.ret
       THEN sleep(read(w, DefaultReadSize, stRead, data))
       ELSE [w EXCEPT !.ret = EmptyStr]

query(c, msg, stWrite, stRead, data) ==
    LET w == write(c, msg, stWrite)
    IN IF w.ret
       THEN read(sleep(w), DefaultReadSize, stRead, data)
       ELSE [w EXCEPT !.ret = EmptyStr]

(***************************************************************************)
(* Attribute access                                                        *)
(***************************************************************************)
setAttribute(c, status) ==
    IF c.open_
    THEN processStatus(Log(c, "viSetAttribute", c.device_, EmptyStr, status),
                       status)
    ELSE [c EXCEPT !.ret = FALSE]

getScalarAttribute(c, status) ==
    IF c.open_
    THEN processStatus(Log(c, "viGetAttribute", c.device_, EmptyStr, status),
                       status)
    ELSE [c EXCEPT !.ret = FALSE]

RECURSIVE CStrFrom(_, _)
\* std::string(const char*): the bytes before the first NUL
CStrFrom(buf, k) ==
    IF k > Len(buf) \/ buf[k] = 0 THEN SubSeq(buf, 1, k - 1)
    ELSE CStrFrom(buf, k + 1)

CStr(buf) == CStrFrom(buf, 1)

\* getStringAttribute: the status of viGetAttribute is not tested; when the
\* call fails the buffer, which was never written, is converted as it is
getStringAttribute(c, status, value, garbage) ==
    IF c.open_
    THEN LET c1 == processStatus(
                       Log(c, "viGetAttribute", c.device_,
                           IF status >= VI_SUCCESS THEN value ELSE EmptyStr,
                           status),
                       status)
             buf == IF status >= VI_SUCCESS THEN Append(value, 0) ELSE garbage
         IN [c1 EXCEPT !.ret = CStr(SubSeq(buf, 1,
                                      Min(Len(buf), ATTR_MAX_LENGTH - 1)))]
    ELSE [c EXCEPT !.ret = EmptyStr]

\* the three attributes getDeviceDescription reads: manufacturer, model,
\* interface name
AttrValue(i) == <<76 + i>>
DescSep == <<32, 58, 32>>

\* the order in which the three operands are evaluated is not specified
getDeviceDescription(c, sts, order, garbage) ==
    IF c.open_
    THEN LET a1 == getStringAttribute(c, sts[order[1]],
                                      AttrValue(order[1]), garbage)
             a2 == getStringAttribute(a1, sts[order[2]],
                                      AttrValue(order[2]), garbage)
             a3 == getStringAttribute(a2, sts[order[3]],
                                      AttrValue(order[3]), garbage)
             part == [i \in 1..3 |->
                        IF i = order[1] THEN a1.ret
                        ELSE IF i = order[2] THEN a2.ret ELSE a3.ret]
         IN [a3 EXCEPT !.ret = part[1] \o DescSep \o part[2] \o DescSep
                                \o part[3]]
    ELSE [c EXCEPT !.ret = EmptyStr]

(***************************************************************************)
(* findInstruments                                                         *)
(***************************************************************************)
\* the identifier of the k-th resource the driver finds ("R1", "R2", ...)
Rsrc(k) == <<82, 48 + k>>

\* std::string(buf, VI_FIND_BUFLEN): all VI_FIND_BUFLEN bytes of the buffer,
\* the identifier, its NUL and whatever the rest of the buffer holds
WholeBuf(id, fill) ==
    [i \in 1..VI_FIND_BUFLEN |->
        IF i <= Len(id) THEN id[i] ELSE IF i = Len(id) + 1 THEN 0 ELSE fill]

RECURSIVE findLoop(_, _, _, _)
\* the for loop over viFindNext, from index k (0-based, as in the code)
findLoop(c, instrList, k, stNext) ==
    IF k >= Len(instrList)
    THEN [c EXCEPT !.ret = instrList]
    ELSE LET c1 == processStatus(
                       Log(c, "viFindNext", c.session_,
                           IF stNext[k] >= VI_SUCCESS THEN Rsrc(k + 1)
                           ELSE EmptyStr,
                           stNext[k]), stNext[k])
         IN IF c1.ret
            THEN findLoop(c1, [instrList EXCEPT ![k + 1] = CStr(Rsrc(k + 1))],
                          k + 1, stNext)
            ELSE [c1 EXCEPT !.ret = instrList]

\* retSize = 0 makes instrList[0] an access outside the vector: undefined
\* behaviour, of which the model keeps two outcomes, the process being
\* killed (ub = "abort") and the store going unnoticed (ub = "ignore")
findInstruments(c, stFind, retSize, stNext, fill, ub) ==
    IF c.initialized_
    THEN LET c1 == processStatus(
                       Log(c, "viFindRsrc", c.session_,
                           IF stFind >= VI_SUCCESS /\ retSize > 0
                           THEN Rsrc(1) ELSE EmptyStr, stFind),
                       stFind)
         IN IF c1.ret
            THEN IF retSize = 0
                 THEN [c1 EXCEPT !.ret = << >>,
                                 !.calls = IF ub = "abort"
                                           THEN Append(@, Call("abort",
                                                GarbageHandle, EmptyStr, 0))
                                           ELSE @]
                 ELSE findLoop(c1,
                               [i \in 1..retSize |->
                                  IF i = 1 THEN WholeBuf(Rsrc(1), fill)
                                  ELSE EmptyStr],
                               1, stNext)
            ELSE [c1 EXCEPT !.ret = << >>]
    ELSE [c EXCEPT !.ret = << >>]

(***************************************************************************)
(* Teardown: ~VISADevice()                                                 *)
(***************************************************************************)
destroy(c, stWrite, stClose, stSession) ==
    IF c.initialized_
    THEN LET c1 == IF c.open_ THEN close(c, stWrite, stClose) ELSE c
         IN IF ~c1.open_
            THEN LET c2 == processStatus(viClose(c1, c1.session_, stSession),
                                         stSession)
                 IN IF c2.ret
                    THEN [c2 EXCEPT !.initialized_ = FALSE, !.ret = FALSE]
                    ELSE [c2 EXCEPT !.ret = FALSE]
            ELSE [c1 EXCEPT !.ret = FALSE]
    ELSE [c EXCEPT !.ret = FALSE]

(***************************************************************************)
(* Construction: VISADevice().  Only closeCmd_ and lastError_ have         *)
(* initializers; initialized_ is assigned only when the session is         *)
(* acquired and open_ is never assigned, so both are indeterminate when    *)
(* processStatus reads them, as are device_, termChar_ and timeout_.       *)
(***************************************************************************)
Constructed(stRM, gInit, gOpen, gTerm, gTimeout) ==
    LET c0 == [initialized_ |-> gInit, open_ |-> gOpen,
               session_ |-> IF stRM >= VI_SUCCESS THEN RMSession
                            ELSE GarbageHandle,
               device_ |-> GarbageHandle, termChar_ |-> gTerm,
               timeout_ |-> gTimeout,
               closeCmd_ |-> EmptyStr, lastError_ |-> "",
               sessionLive |-> (stRM >= VI_SUCCESS), live |-> {},
               calls |-> <<Call("viOpenDefaultRM", GarbageHandle, EmptyStr,
                                stRM)>>,
               ret |-> FALSE]
        c1 == processStatus(c0, stRM)
    IN IF c1.ret THEN [c1 EXCEPT !.initialized_ = TRUE] ELSE c1

\* the members of BK9130B as its constructor's initializer list sets them,
\* before any adapter call
AdapterConstructed ==
    /\ adapter_initialized_ = FALSE
    /\ activeChannel_ = EmptyStr
    /\ activeChannelState_ = FALSE
    /\ outputVoltage_ = 1
    /\ outputCurrent_ = 0
    /\ propertiesCreated = FALSE
    /\ adapterOp = [name |-> "BK9130B", act |-> "", arg |-> EmptyStr,
                    ret |-> 0, ops |-> << >>, calls |-> << >>,
                    out |-> EmptyStr, logged |-> << >>]

\* the core after VISADevice()
CoreInit ==
    \E stRM \in AllStatuses, gInit \in BOOLEAN, gOpen \in BOOLEAN,
       gTerm \in GarbageTermChars, gTimeout \in GarbageTimeouts :
        LET c == Constructed(stRM, gInit, gOpen, gTerm, gTimeout)
        IN /\ initialized_ = c.initialized_
           /\ open_ = c.open_
           /\ session_ = c.session_
           /\ device_ = c.device_
           /\ termChar_ = c.termChar_
           /\ timeout_ = c.timeout_
           /\ closeCmd_ = c.closeCmd_
           /\ lastError_ = c.lastError_
           /\ sessionLive = c.sessionLive
           /\ live = c.live
           /\ lastOp = [name |-> "VISADevice", arg |-> EmptyStr,
                        ret |-> c.ret, calls |-> c.calls]

Init == CoreInit /\ AdapterConstructed

(***************************************************************************)
(* Actions: one per public member function.  The inputs of an action are   *)
(* the argument of the call and, for every driver call the function makes, *)
(* the status the driver returns and the data it produces.  An input that  *)
(* belongs to a driver call the function does not reach has no effect, so  *)
(* it is drawn from one value only (When).                                 *)
(***************************************************************************)
When(reached, S) == IF reached THEN S ELSE {CHOOSE x \in S : TRUE}

Ok(status) == status >= VI_SUCCESS

\* the driver carries out a call only on a handle it holds: the statuses it
\* can return for a call on the session and for a call on device_
SessionStatuses ==
    IF sessionLive /\ session_ = RMSession THEN Statuses
    ELSE {st \in Statuses : ~Ok(st)}

DeviceStatuses ==
    IF device_ \in live THEN Statuses ELSE {st \in Statuses : ~Ok(st)}

\* the same, the warning status included
DeviceStatusesW ==
    IF device_ \in live THEN AllStatuses ELSE {st \in AllStatuses : ~Ok(st)}

\* the driver holds at most MaxHandles device handles
CanOpen(stOpen) ==
    (initialized_ /\ Ok(stOpen)) => Cardinality(live) < MaxHandles

Open ==
    \E timeout \in Timeouts :
    \E stOpen \in When(initialized_, SessionStatuses) :
    \E stAttr \in When(initialized_ /\ Ok(stOpen), Statuses) :
    \E tc \in When(initialized_ /\ Ok(stOpen) /\ Ok(stAttr), TermChars) :
    \E stWrite \in When(initialized_ /\ Ok(stOpen) /\ ~Ok(stAttr)
                        /\ closeCmd_ # EmptyStr, Statuses) :
    \E stClose \in When(initialized_ /\ Ok(stOpen) /\ ~Ok(stAttr), Statuses) :
        /\ CanOpen(stOpen)
        /\ Done("open", timeout,
                open(Cur, timeout, stOpen, stAttr, tc, stWrite, stClose))

Close ==
    \E stWrite \in When(open_ /\ initialized_ /\ closeCmd_ # EmptyStr,
                        DeviceStatuses) :
    \E stClose \in When(open_, DeviceStatuses) :
        Done("close", EmptyStr, close(Cur, stWrite, stClose))

GetLastError == Done("getLastError", EmptyStr, getLastError(Cur))

OnClose == \E cmd \in CloseCmds : Done("onClose", cmd, onClose(Cur, cmd))

OnCloseList ==
    \E cmds \in CmdLists : Done("onCloseList", cmds, onCloseList(Cur, cmds))

Write ==
    \E msg \in Msgs :
    \E st \in When(initialized_ /\ open_, DeviceStatuses) :
        Done("write", msg, write(Cur, msg, st))

WriteList ==
    \E list \in CmdLists :
    \E st \in When(initialized_ /\ open_, DeviceStatuses) :
        Done("writeList", list, writeList(Cur, list, st))

Read ==
    \E bufSize \in BufSizes :
    \E st \in When(initialized_ /\ open_, DeviceStatuses) :
    \E data \in When(initialized_ /\ open_, Replies) :
        Done("read", bufSize, read(Cur, bufSize, st, data))

Query ==
    \E msg \in Msgs :
    \E stWrite \in When(initialized_ /\ open_, DeviceStatuses) :
    \E stRead \in When(initialized_ /\ open_ /\ Ok(stWrite),
                       DeviceStatuses) :
    \E data \in When(initialized_ /\ open_ /\ Ok(stWrite), Replies) :
        Done("query", msg, query(Cur, msg, stWrite, stRead, data))

SetAttribute ==
    \E st \in When(open_, DeviceStatusesW) :
        Done("setAttribute", EmptyStr, setAttribute(Cur, st))

GetScalarAttribute ==
    \E st \in When(open_, DeviceStatuses) :
        Done("getScalarAttribute", EmptyStr, getScalarAttribute(Cur, st))

GetStringAttribute ==
    \E st \in When(open_, DeviceStatuses) :
    \E garbage \in When(open_ /\ ~Ok(st), GarbageStrs) :
        Done("getStringAttribute", EmptyStr,
             getStringAttribute(Cur, st, AttrValue(1), garbage))

GetDeviceDescription ==
    \E sts \in When(open_, DescStatuses \cap [1..3 -> DeviceStatuses]) :
    \E order \in When(open_, Orders) :
    \E garbage \in When(open_ /\ (\E i \in 1..3 : ~Ok(sts[i])), GarbageStrs) :
        Done("getDeviceDescription", EmptyStr,
             getDeviceDescription(Cur, sts, order, garbage))

FindInstruments ==
    \E stFind \in When(initialized_, SessionStatuses) :
    \E retSize \in When(initialized_ /\ Ok(stFind), 0..MaxMatches) :
    \E stNext \in When(initialized_ /\ Ok(stFind) /\ retSize > 1,
                       [1..(MaxMatches - 1) -> Statuses]) :
    \E fill \in When(initialized_ /\ Ok(stFind) /\ retSize > 0, GarbageFill) :
    \E ub \in When(initialized_ /\ Ok(stFind) /\ retSize = 0,
                   {"abort", "ignore"}) :
        Done("findInstruments", EmptyStr,
             findInstruments(Cur, stFind, retSize, stNext, fill, ub))

Destroy ==
    \E stWrite \in When(initialized_ /\ open_ /\ closeCmd_ # EmptyStr,
                        DeviceStatuses) :
    \E stClose \in When(initialized_ /\ open_, DeviceStatuses) :
    \E stSession \in When(initialized_ /\ (~open_ \/ Ok(stClose)),
                          SessionStatuses) :
        Done("~VISADevice", EmptyStr,
             destroy(Cur, stWrite, stClose, stSession))

\* a call that ended in abort() is the last one of the run, and so is the
\* destructor
Running ==
    /\ \A i \in 1..Len(lastOp.calls) : lastOp.calls[i].call # "abort"
    /\ lastOp.name # "~VISADevice"

Next ==
    /\ Running
    /\ \/ Open
       \/ Close
       \/ GetLastError
       \/ OnClose
       \/ OnCloseList
       \/ Write
       \/ WriteList
       \/ Read
       \/ Query
       \/ SetAttribute
       \/ GetScalarAttribute
       \/ GetStringAttribute
       \/ GetDeviceDescription
       \/ FindInstruments
       \/ Destroy

Spec == Init /\ [][Next]_vars

(***************************************************************************)
(* The adapter BK9130B.  Its handlers call the core dev_; the operators    *)
(* below thread one record through the core's operators, with the          *)
(* adapter's members and the record of the call added: ops is the sequence *)
(* of core operations the handler made, logged the texts it passed to      *)
(* LogMessage, out the value it handed back to the framework.  Voltages    *)
(* and currents are whole numbers of volts and amperes.                    *)
(***************************************************************************)
\* the framework's codes for success and for an unspecified error, then the
\* adapter's own codes
DEVICE_OK == 0
DEVICE_ERR == 1
ERR_INVALID_VOLTAGE == 103
ERR_WRITE_FAILED == 105
ERR_QUERY_FAILED == 107
\* 'V' and 'A'
UNIT_V == 86
UNIT_A == 65
\* "INST:SEL "
INST_SEL == <<73, 78, 83, 84, 58, 83, 69, 76, 32>>
\* "INST:SEL?"
INST_SEL_Q == <<73, 78, 83, 84, 58, 83, 69, 76, 63>>
\* "SOUR:CHAN:OUTP:STAT "
OUTP_STAT ==
    <<83, 79, 85, 82, 58, 67, 72, 65, 78, 58, 79, 85, 84, 80, 58, 83, 84,
      65, 84, 32>>
\* "SOUR:CHAN:OUTP:STAT?"
OUTP_STAT_Q ==
    <<83, 79, 85, 82, 58, 67, 72, 65, 78, 58, 79, 85, 84, 80, 58, 83, 84,
      65, 84, 63>>
\* "ON"
STR_ON == <<79, 78>>
\* "OFF"
STR_OFF == <<79, 70, 70>>
\* "SOUR:VOLT"
SOUR_VOLT == <<83, 79, 85, 82, 58, 86, 79, 76, 84>>
\* "SOUR:CURR"
SOUR_CURR == <<83, 79, 85, 82, 58, 67, 85, 82, 82>>
\* ":LEV?"
LEV_Q == <<58, 76, 69, 86, 63>>
\* "CH1"
CH1 == <<67, 72, 49>>
\* "CH3"
CH3 == <<67, 72, 51>>
\* "SOUR:VOLT 1.0 V"
VOLT_DEFAULT == <<83, 79, 85, 82, 58, 86, 79, 76, 84, 32, 49, 46, 48, 32, 86>>
\* "SOUR:CURR 0.0 A"
CURR_DEFAULT == <<83, 79, 85, 82, 58, 67, 85, 82, 82, 32, 48, 46, 48, 32, 65>>
\* ".000000 "
SIX_ZEROS == <<46, 48, 48, 48, 48, 48, 48, 32>>

\* the commands Initialize() registers for close() and sends as defaults
CloseList ==
    <<INST_SEL \o CH1, OUTP_STAT \o STR_OFF,
      INST_SEL \o <<67, 72, 50>>, OUTP_STAT \o STR_OFF,
      INST_SEL \o CH3, OUTP_STAT \o STR_OFF>>
DefaultsList ==
    <<INST_SEL \o CH1, OUTP_STAT \o STR_OFF, VOLT_DEFAULT, CURR_DEFAULT>>

\* the channel the framework passes to OnActiveChannel, the values it
\* passes to OnOutputVoltage and to OnOutputCurrent, the timeout Initialize()
\* reads from the property, the terminator the power supply reports, the
\* replies it sends ("1", "0")
Channels == {CH3}
VoltageValues == {1, 6}
CurrentValues == {1}
AdapterTimeouts == {0}
AdapterTermChars == {LF}
AdapterReplies == {<<49>>, <<48>>}
ActionTypes == {"BeforeGet", "AfterSet"}

RECURSIVE Digits(_)
\* the decimal digits of a natural number, as "%f" prints its whole part
Digits(n) ==
    IF n < 10 THEN <<48 + n>> ELSE Append(Digits(n \div 10), 48 + (n % 10))

\* sprintf(buf, "%f %c", val, unit)
doubleToStr(val, unit) == Digits(val) \o SIX_ZEROS \o <<unit>>

RECURSIVE strtodFrom(_, _, _)
\* strtod on a string of digits: the number its leading digits spell
strtodFrom(str, k, acc) ==
    IF k > Len(str) \/ str[k] < 48 \/ str[k] > 57 THEN acc
    ELSE strtodFrom(str, k + 1, 10 * acc + (str[k] - 48))

strtod(str) == strtodFrom(str, 1, 0)

\* the core and the adapter as one record
ACur ==
    [initialized_ |-> initialized_, open_ |-> open_, session_ |-> session_,
     device_ |-> device_, termChar_ |-> termChar_, timeout_ |-> timeout_,
     closeCmd_ |-> closeCmd_, lastError_ |-> lastError_,
     sessionLive |-> sessionLive, live |-> live,
     calls |-> << >>, ret |-> FALSE,
     adapter_initialized_ |-> adapter_initialized_,
     activeChannel_ |-> activeChannel_,
     activeChannelState_ |-> activeChannelState_,
     outputVoltage_ |-> outputVoltage_, outputCurrent_ |-> outputCurrent_,
     propertiesCreated |-> propertiesCreated,
     ops |-> << >>, logged |-> << >>, out |-> EmptyStr, code |-> DEVICE_OK]

\* r is the record after the core operation name(arg)
CoreOp(name, arg, r) ==
    [r EXCEPT !.ops = Append(@, [op |-> name, arg |-> arg, ret |-> r.ret])]

\* LogMessage(dev_.getLastError())
LogLastError(a) ==
    LET r == CoreOp("getLastError", EmptyStr, getLastError(a))
    IN [r EXCEPT !.logged = Append(@, r.ret)]

\* one adapter call is finished
ADone(name, act, arg, result) ==
    \E a \in {result} :
    /\ initialized_' = a.initialized_
    /\ open_' = a.open_
    /\ session_' = a.session_
    /\ device_' = a.device_
    /\ termChar_' = a.termChar_
    /\ timeout_' = a.timeout_
    /\ closeCmd_' = a.closeCmd_
    /\ lastError_' = a.lastError_
    /\ sessionLive' = a.sessionLive
    /\ live' = a.live
    /\ adapter_initialized_' = a.adapter_initialized_
    /\ activeChannel_' = a.activeChannel_
    /\ activeChannelState_' = a.activeChannelState_
    /\ outputVoltage_' = a.outputVoltage_
    /\ outputCurrent_' = a.outputCurrent_
    /\ propertiesCreated' = a.propertiesCreated
    /\ adapterOp' = [name |-> name, act |-> act, arg |-> arg,
                     ret |-> a.code, ops |-> a.ops, calls |-> a.calls,
                     out |-> a.out, logged |-> a.logged]
    /\ UNCHANGED lastOp

(***************************************************************************)
(* The adapter's handlers.                                                 *)
(***************************************************************************)
Initialize(a, timeout, stOpen, stAttr, tc, stCloseWrite, stClose, stWrite) ==
    IF a.adapter_initialized_
    THEN [a EXCEPT !.code = DEVICE_OK]
    ELSE LET a0 == [a EXCEPT !.propertiesCreated = TRUE]
             o == CoreOp("open", timeout,
                         open(a0, timeout, stOpen, stAttr, tc, stCloseWrite,
                              stClose))
             a1 == [o EXCEPT !.adapter_initialized_ = o.ret]
         IN IF a1.adapter_initialized_
            THEN LET c1 == CoreOp("onClose", CloseList,
                                  onCloseList(a1, CloseList))
                     w == CoreOp("writeList", DefaultsList,
                                 writeList(c1, DefaultsList, stWrite))
                 IN [w EXCEPT !.code = DEVICE_OK]
            ELSE [LogLastError(a1) EXCEPT !.code = DEVICE_ERR]

Shutdown(a, stWrite, stClose) ==
    IF a.adapter_initialized_
    THEN LET c == CoreOp("close", EmptyStr, close(a, stWrite, stClose))
             c1 == IF ~c.ret
                   THEN [LogLastError(c) EXCEPT !.code = DEVICE_ERR]
                   ELSE [c EXCEPT !.code = DEVICE_OK]
         IN [c1 EXCEPT !.adapter_initialized_ = FALSE]
    ELSE [a EXCEPT !.code = DEVICE_OK]

\* SetOpen as it would be if the tracked state followed the request whatever
\* the write returned
SetOpen_tracksAlways(a, openArg, stWrite) ==
    IF openArg # a.activeChannelState_
    THEN LET cmd == <<INST_SEL \o a.activeChannel_,
                      OUTP_STAT \o (IF openArg THEN STR_ON ELSE STR_OFF)>>
             w == CoreOp("writeList", cmd, writeList(a, cmd, stWrite))
         IN IF w.ret
            THEN [w EXCEPT !.activeChannelState_ = openArg,
                           !.code = DEVICE_OK]
            ELSE [LogLastError(w) EXCEPT !.activeChannelState_ = openArg,
                                         !.code = ERR_WRITE_FAILED]
    ELSE [a EXCEPT !.code = DEVICE_OK]

SetOpen(a, openArg, stWrite) ==
    IF openArg # a.activeChannelState_
    THEN LET cmd == <<INST_SEL \o a.activeChannel_,
                      OUTP_STAT \o (IF openArg THEN STR_ON ELSE STR_OFF)>>
             w == CoreOp("writeList", cmd, writeList(a, cmd, stWrite))
         IN IF w.ret
            THEN [w EXCEPT !.activeChannelState_ = openArg,
                           !.code = DEVICE_OK]
            ELSE [LogLastError(w) EXCEPT !.code = ERR_WRITE_FAILED]
    ELSE [a EXCEPT !.code = DEVICE_OK]

GetOpen(a) == [a EXCEPT !.out = a.activeChannelState_, !.code = DEVICE_OK]

\* the second query of the set action uses stWrite2, stRead2 and data2
OnActiveChannel(a, eAct, chan, stWrite, stRead, data, stWrite2, stRead2, data2) ==
    IF eAct = "BeforeGet"
    THEN LET q == CoreOp("query", INST_SEL_Q,
                         query(a, INST_SEL_Q, stWrite, stRead, data))
         IN IF q.ret = EmptyStr
            THEN [LogLastError(q) EXCEPT !.code = ERR_QUERY_FAILED]
            ELSE [q EXCEPT !.out = q.ret, !.activeChannel_ = q.ret,
                           !.code = DEVICE_OK]
    ELSE IF eAct = "AfterSet"
    THEN LET a1 == [a EXCEPT !.activeChannel_ = chan]
             w == CoreOp("write", INST_SEL \o chan,
                         write(a1, INST_SEL \o chan, stWrite))
         IN IF ~w.ret
            THEN [LogLastError(w) EXCEPT !.code = ERR_WRITE_FAILED]
            ELSE LET q == CoreOp("query", OUTP_STAT_Q,
                                 query(w, OUTP_STAT_Q, stWrite2, stRead2,
                                       data2))
                 IN [q EXCEPT !.activeChannelState_ = (q.ret = <<49>>),
                              !.code = DEVICE_OK]
    ELSE [a EXCEPT !.code = DEVICE_OK]

\* OnOutputChange as it would be if a failed write were not reported
OnOutputChange_ignoresWrite(a, eAct, unit, v, stWrite, stRead, data) ==
    LET cmd == IF unit = UNIT_A THEN SOUR_CURR ELSE SOUR_VOLT
        setValue(r, x) == IF unit = UNIT_A
                          THEN [r EXCEPT !.outputCurrent_ = x]
                          ELSE [r EXCEPT !.outputVoltage_ = x]
    IN IF eAct = "BeforeGet"
       THEN LET q == CoreOp("query", cmd \o LEV_Q,
                            query(a, cmd \o LEV_Q, stWrite, stRead, data))
            IN IF q.ret = EmptyStr
               THEN [LogLastError(q) EXCEPT !.code = ERR_QUERY_FAILED]
               ELSE [setValue(q, strtod(q.ret))
                        EXCEPT !.out = strtod(q.ret), !.code = DEVICE_OK]
       ELSE IF eAct = "AfterSet"
       THEN LET clamp == a.activeChannel_ = CH3 /\ unit = UNIT_V /\ v > 5
                value == IF clamp THEN 5 ELSE v
                a1 == [setValue(a, value)
                          EXCEPT !.code = IF clamp THEN ERR_INVALID_VOLTAGE
                                          ELSE DEVICE_OK]
                msg == cmd \o <<32>> \o doubleToStr(value, unit)
            IN CoreOp("write", msg, write(a1, msg, stWrite))
       ELSE [a EXCEPT !.code = DEVICE_OK]

\* value is outputVoltage_ for the unit 'V' and outputCurrent_ for 'A'
OnOutputChange(a, eAct, unit, v, stWrite, stRead, data) ==
    LET cmd == IF unit = UNIT_A THEN SOUR_CURR ELSE SOUR_VOLT
        setValue(r, x) == IF unit = UNIT_A
                          THEN [r EXCEPT !.outputCurrent_ = x]
                          ELSE [r EXCEPT !.outputVoltage_ = x]
    IN IF eAct = "BeforeGet"
       THEN LET q == CoreOp("query", cmd \o LEV_Q,
                            query(a, cmd \o LEV_Q, stWrite, stRead, data))
            IN IF q.ret = EmptyStr
               THEN [LogLastError(q) EXCEPT !.code = ERR_QUERY_FAILED]
               ELSE [setValue(q, strtod(q.ret))
                        EXCEPT !.out = strtod(q.ret), !.code = DEVICE_OK]
       ELSE IF eAct = "AfterSet"
       THEN LET clamp == a.activeChannel_ = CH3 /\ unit = UNIT_V /\ v > 5
                value == IF clamp THEN 5 ELSE v
                a1 == [setValue(a, value)
                          EXCEPT !.code = IF clamp THEN ERR_INVALID_VOLTAGE
                                          ELSE DEVICE_OK]
                msg == cmd \o <<32>> \o doubleToStr(value, unit)
                w == CoreOp("write", msg, write(a1, msg, stWrite))
            IN IF ~w.ret
               THEN [LogLastError(w) EXCEPT !.code = ERR_WRITE_FAILED]
               ELSE w
       ELSE [a EXCEPT !.code = DEVICE_OK]

OnOutputVoltage(a, eAct, v, stWrite, stRead, data) ==
    OnOutputChange(a, eAct, UNIT_V, v, stWrite, stRead, data)

OnOutputCurrent(a, eAct, v, stWrite, stRead, data) ==
    OnOutputChange(a, eAct, UNIT_A, v, stWrite, stRead, data)

(***************************************************************************)
(* The adapter's construction and its actions: one per call the framework  *)
(* makes.  BK9130B() constructs the core and calls findInstruments("?*")   *)
(* on it (an abort() there leaves no adapter, so that outcome starts no    *)
(* behaviour); the list it returns only becomes the default of a property. *)
(***************************************************************************)
AdapterMatches == {0, 1}

AdapterInit ==
    \E stRM \in AllStatuses, gInit \in BOOLEAN, gOpen \in BOOLEAN,
       gTerm \in GarbageTermChars, gTimeout \in GarbageTimeouts :
        LET c == Constructed(stRM, gInit, gOpen, gTerm, gTimeout)
            sessionStatuses ==
                IF c.sessionLive /\ c.session_ = RMSession THEN Statuses
                ELSE {st \in Statuses : ~Ok(st)}
        IN \E stFind \in When(c.initialized_, sessionStatuses) :
           \E retSize \in When(c.initialized_ /\ Ok(stFind), AdapterMatches) :
               LET stNext == CHOOSE f \in [1..(MaxMatches - 1) -> Statuses] :
                                 TRUE
                   fill == CHOOSE g \in GarbageFill : TRUE
                   f == findInstruments(c, stFind, retSize, stNext, fill,
                                        "ignore")
               IN /\ initialized_ = f.initialized_
                  /\ open_ = f.open_
                  /\ session_ = f.session_
                  /\ device_ = f.device_
                  /\ termChar_ = f.termChar_
                  /\ timeout_ = f.timeout_
                  /\ closeCmd_ = f.closeCmd_
                  /\ lastError_ = f.lastError_
                  /\ sessionLive = f.sessionLive
                  /\ live = f.live
                  /\ lastOp = [name |-> "VISADevice", arg |-> EmptyStr,
                               ret |-> c.ret, calls |-> c.calls]
                  /\ AdapterConstructed

\* Initialize() creates the properties first, and creating one that exists
\* fails its assert: the call is made on a fresh adapter or on an
\* initialized one
InitializeCall ==
    /\ ~propertiesCreated \/ adapter_initialized_
    /\ \E timeout \in AdapterTimeouts :
       \E stOpen \in When(~adapter_initialized_ /\ initialized_,
                          SessionStatuses) :
       \E stAttr \in When(~adapter_initialized_ /\ initialized_
                          /\ Ok(stOpen), Statuses) :
       \E tc \in When(~adapter_initialized_ /\ initialized_ /\ Ok(stOpen)
                      /\ Ok(stAttr), AdapterTermChars) :
       \E stCloseWrite \in When(~adapter_initialized_ /\ initialized_
                                /\ Ok(stOpen) /\ ~Ok(stAttr)
                                /\ closeCmd_ # EmptyStr, Statuses) :
       \E stClose \in When(~adapter_initialized_ /\ initialized_
                           /\ Ok(stOpen) /\ ~Ok(stAttr), Statuses) :
       \E stWrite \in When(~adapter_initialized_ /\ initialized_
                           /\ Ok(stOpen) /\ Ok(stAttr), Statuses) :
           /\ CanOpen(stOpen)
           /\ ADone("Initialize", "", EmptyStr,
                    Initialize(ACur, timeout, stOpen, stAttr, tc,
                               stCloseWrite, stClose, stWrite))

ShutdownCall ==
    \E stWrite \in When(adapter_initialized_ /\ open_ /\ initialized_
                        /\ closeCmd_ # EmptyStr, DeviceStatuses) :
    \E stClose \in When(adapter_initialized_ /\ open_, DeviceStatuses) :
        ADone("Shutdown", "", EmptyStr, Shutdown(ACur, stWrite, stClose))

SetOpenCall ==
    \E openArg \in BOOLEAN :
    \E stWrite \in When(openArg # activeChannelState_ /\ initialized_
                        /\ open_, DeviceStatuses) :
        ADone("SetOpen", "", openArg, SetOpen(ACur, openArg, stWrite))

GetOpenCall == ADone("GetOpen", "", EmptyStr, GetOpen(ACur))

\* the framework calls the property handlers once the properties exist
OnActiveChannelCall ==
    /\ propertiesCreated
    /\ \E eAct \in ActionTypes :
       \E chan \in When(eAct = "AfterSet", Channels) :
       \E stWrite \in When(initialized_ /\ open_, DeviceStatuses) :
       \E stRead \in When(eAct = "BeforeGet" /\ initialized_ /\ open_
                          /\ Ok(stWrite), DeviceStatuses) :
       \E data \in When(eAct = "BeforeGet" /\ initialized_ /\ open_
                        /\ Ok(stWrite), AdapterReplies) :
       \E stWrite2 \in When(eAct = "AfterSet" /\ initialized_ /\ open_
                            /\ Ok(stWrite), DeviceStatuses) :
       \E stRead2 \in When(eAct = "AfterSet" /\ initialized_ /\ open_
                           /\ Ok(stWrite) /\ Ok(stWrite2), DeviceStatuses) :
       \E data2 \in When(eAct = "AfterSet" /\ initialized_ /\ open_
                         /\ Ok(stWrite) /\ Ok(stWrite2), AdapterReplies) :
           ADone("OnActiveChannel", eAct, chan,
                 OnActiveChannel(ACur, eAct, chan, stWrite, stRead, data,
                                 stWrite2, stRead2, data2))

OnOutputVoltageCall ==
    /\ propertiesCreated
    /\ \E eAct \in ActionTypes :
       \E v \in When(eAct = "AfterSet", VoltageValues) :
       \E stWrite \in When(initialized_ /\ open_, DeviceStatuses) :
       \E stRead \in When(eAct = "BeforeGet" /\ initialized_ /\ open_
                          /\ Ok(stWrite), DeviceStatuses) :
       \E data \in When(eAct = "BeforeGet" /\ initialized_ /\ open_
                        /\ Ok(stWrite), AdapterReplies) :
           ADone("OnOutputVoltage", eAct, v,
                 OnOutputVoltage(ACur, eAct, v, stWrite, stRead, data))

OnOutputCurrentCall ==
    /\ propertiesCreated
    /\ \E eAct \in ActionTypes :
       \E v \in When(eAct = "AfterSet", CurrentValues) :
       \E stWrite \in When(initialized_ /\ open_, DeviceStatuses) :
       \E stRead \in When(eAct = "BeforeGet" /\ initialized_ /\ open_
                          /\ Ok(stWrite), DeviceStatuses) :
       \E data \in When(eAct = "BeforeGet" /\ initialized_ /\ open_
                        /\ Ok(stWrite), AdapterReplies) :
           ADone("OnOutputCurrent", eAct, v,
                 OnOutputCurrent(ACur, eAct, v, stWrite, stRead, data))

AdapterNext ==
    \/ InitializeCall
    \/ ShutdownCall
    \/ SetOpenCall
    \/ GetOpenCall
    \/ OnActiveChannelCall
    \/ OnOutputVoltageCall
    \/ OnOutputCurrentCall

AdapterSpec == AdapterInit /\ [][AdapterNext]_vars

(***************************************************************************)
(* Properties.                                                             *)
(***************************************************************************)
DriverCalls ==
    {"viOpen", "viClose", "viGetAttribute", "viSetAttribute", "viWrite",
     "viRead", "viFindRsrc", "viFindNext", "viStatusDesc"}

CoreOps ==
    {"open", "close", "findInstruments", "setAttribute", "getScalarAttribute",
     "getStringAttribute", "write", "writeList", "query", "read",
     "getDeviceDescription"}

\* positions in a call log of the calls with a given name
Positions(calls, name) == {i \in 1..Len(calls) : calls[i].call = name}

MadeDriverCall(calls) == \E i \in 1..Len(calls) : calls[i].call \in DriverCalls

\* the session was acquired by the constructor
Acquired == session_ = RMSession

\* C1: on a core whose session acquisition failed, no core operation ever
\* makes a driver call.
C1_NoDriverCallWithoutSession ==
    (~Acquired /\ lastOp.name \in CoreOps) => ~MadeDriverCall(lastOp.calls)

\* the value a core operation returns to report failure
FailureValue(name) ==
    IF name \in {"open", "close", "setAttribute", "getScalarAttribute",
                 "write", "writeList"}
    THEN FALSE
    ELSE IF name = "findInstruments" THEN << >> ELSE EmptyStr

\* C2 as stated: while initialized_ is false every core operation returns its
\* failure value, false for close() included.
C2_FailureValueWhileUninitialized ==
    (~initialized_ /\ lastOp.name \in CoreOps)
        => lastOp.ret = FailureValue(lastOp.name)

\* C2 amended: while initialized_ is false, open and write return false, query
\* and read return the empty string and findInstruments returns the empty
\* sequence; close returns true exactly when no device is marked open after
\* it; the attribute operations and getDeviceDescription, which test open_
\* alone, return their failure value when open_ is false.
C2_UninitializedResults ==
    (~initialized_ /\ lastOp.name \in CoreOps) =>
        /\ lastOp.name \in {"open", "write", "writeList", "query", "read",
                            "findInstruments"}
              => lastOp.ret = FailureValue(lastOp.name)
        /\ lastOp.name = "close" => lastOp.ret = ~open_
        /\ (lastOp.name = "close" /\ lastOp.calls = << >>) => lastOp.ret = TRUE
        /\ (~open_ /\ lastOp.name \in {"setAttribute", "getScalarAttribute",
                                       "getStringAttribute",
                                       "getDeviceDescription"})
              => lastOp.ret = FailureValue(lastOp.name)

\* a close() on an uninitialized core with nothing open has returned true
C2_Witness ==
    /\ ~initialized_ /\ ~open_
    /\ lastOp.name = "close" /\ lastOp.ret = TRUE /\ lastOp.calls = << >>

\* the call log shows a device open that succeeded followed by a terminator
\* fetch that failed
FetchFailedAfterOpen(calls) ==
    \E i \in Positions(calls, "viOpen") :
        /\ Ok(calls[i].st)
        /\ \E j \in Positions(calls, "viGetAttribute") :
               j > i /\ ~Ok(calls[j].st)

\* C3: when open() obtains a handle but the terminator fetch fails, open()
\* returns false and isOpen() is false when it returns, whatever the driver
\* calls of the forced close return.
C3_NotOpenAfterFailedFetch ==
    (lastOp.name = "open" /\ FetchFailedAfterOpen(lastOp.calls))
        => (lastOp.ret = FALSE /\ ~open_)

\* C4: at most one device handle obtained from the driver is live at any
\* time.
C4_AtMostOneLiveHandle == Cardinality(live) <= 1

\* C5: isOpen() implies that the stored device handle was opened by the
\* driver and has not been released.
C5_OpenImpliesLiveHandle == open_ => device_ \in live

\* C6: open() returns true only if the device open and the terminator fetch
\* of that call both succeeded, and then isOpen() is true and termChar_ is
\* the value the fetch produced.
C6_OpenTrueOnlyIfBothSucceed ==
    (lastOp.name = "open" /\ lastOp.ret = TRUE) =>
        /\ \E i \in Positions(lastOp.calls, "viOpen") :
               /\ Ok(lastOp.calls[i].st)
               /\ \E j \in Positions(lastOp.calls, "viGetAttribute") :
                      /\ j > i
                      /\ Ok(lastOp.calls[j].st)
                      /\ lastOp.calls[j].h = device_
                      /\ lastOp.calls[j].data = <<termChar_>>
        /\ open_
        /\ device_ \in live

C6_Witness ==
    /\ lastOp.name = "open" /\ lastOp.ret = TRUE
    /\ open_ /\ termChar_ \in TermChars

\* C7: whenever open() returns false on a core that had no device open
\* before the call, isOpen() is false afterwards and Last Error is not
\* empty, so that the next getLastError() returns a non-empty string.
C7_FailedOpenLeavesClosedWithError ==
    [][(~open_ /\ lastOp'.name = "open" /\ lastOp'.ret = FALSE)
           => (~open_' /\ lastError_' # "")]_vars

\* the handle release of a call log succeeded
ReleaseSucceeded(calls) ==
    \E i \in Positions(calls, "viClose") : Ok(calls[i].st)

\* close() on a core with no open device returns true, makes no driver call
\* and changes nothing
CloseWhenClosedIsNoOp ==
    (~open_ /\ lastOp'.name = "close")
        => /\ lastOp'.ret = TRUE
           /\ lastOp'.calls = << >>
           /\ UNCHANGED <<objVars, drvVars>>

\* C8 as stated: close() on a core with no open device is a no-op returning
\* true, and after a successful open() two close() calls in a row both
\* return true.
C8_CloseTwiceAlwaysTrue ==
    [][/\ CloseWhenClosedIsNoOp
       /\ (lastOp.name = "open" /\ lastOp.ret = TRUE
             /\ lastOp'.name = "close") => lastOp'.ret = TRUE
       /\ (lastOp.name = "close" /\ lastOp.ret = TRUE
             /\ lastOp'.name = "close") => lastOp'.ret = TRUE]_vars

\* C8 amended: close() on a core with no open device is a no-op returning
\* true; after a successful open(), close() returns true exactly when the
\* release of the handle succeeds; and once close() has returned true, a
\* close() that follows it returns true without a driver call.
C8_CloseIdempotent ==
    [][/\ CloseWhenClosedIsNoOp
       /\ (lastOp.name = "open" /\ lastOp.ret = TRUE
             /\ lastOp'.name = "close")
            => (lastOp'.ret = ReleaseSucceeded(lastOp'.calls))
       /\ (lastOp.name = "close" /\ lastOp.ret = TRUE
             /\ lastOp'.name = "close")
            => (lastOp'.ret = TRUE /\ lastOp'.calls = << >>)]_vars

\* a close() that found nothing open, on a core that has had a device open
C8_Witness ==
    /\ lastOp.name = "close" /\ lastOp.ret = TRUE /\ lastOp.calls = << >>
    /\ device_ # GarbageHandle /\ live = {} /\ ~open_

\* no write of the call log succeeded
NoWriteSucceeded(calls) ==
    \A i \in Positions(calls, "viWrite") : ~Ok(calls[i].st)

\* a device is open: the flag is set and the handle is one the driver holds
DeviceOpen == open_ /\ device_ \in live

\* C9: when close() is called on an open device with a registered close
\* command and the write of the command fails, the release of the handle is
\* still attempted; if it succeeds close() returns true, isOpen() is false
\* and Last Error is the warning about the close command.
C9_CloseProceedsAfterFailedCommand ==
    [][(DeviceOpen /\ closeCmd_ # EmptyStr /\ lastOp'.name = "close"
          /\ NoWriteSucceeded(lastOp'.calls))
         => /\ \E i \in Positions(lastOp'.calls, "viClose") :
                   lastOp'.calls[i].h = device_
            /\ ReleaseSucceeded(lastOp'.calls)
                 => /\ lastOp'.ret = TRUE
                    /\ ~open_'
                    /\ lastError_' = WARN_CLOSE]_vars

C9_Witness ==
    /\ lastOp.name = "close" /\ lastOp.ret = TRUE /\ ~open_
    /\ lastError_ = WARN_CLOSE
    /\ \E i \in Positions(lastOp.calls, "viWrite") : ~Ok(lastOp.calls[i].st)
    /\ ReleaseSucceeded(lastOp.calls)

\* C10: a close() on an open device with a registered close command attempts
\* exactly one driver write, of the command followed by the terminator, and
\* attempts it before the one call that releases the handle; without a
\* registered command it attempts no write.
C10_OneCloseCommandBeforeRelease ==
    [][(DeviceOpen /\ lastOp'.name = "close") =>
          LET calls == lastOp'.calls
              writes == Positions(calls, "viWrite")
              closes == Positions(calls, "viClose")
          IN /\ Cardinality(closes) = 1
             /\ \A j \in closes : calls[j].h = device_
             /\ IF closeCmd_ # EmptyStr
                THEN /\ Cardinality(writes) = 1
                     /\ \A i \in writes :
                           /\ calls[i].h = device_
                           /\ calls[i].data = closeCmd_ \o <<termChar_>>
                           /\ \A j \in closes : i < j
                ELSE writes = {}]_vars

C10_Witness ==
    /\ lastOp.name = "close"
    /\ closeCmd_ # EmptyStr
    /\ Len(lastOp.calls) >= 2
    /\ lastOp.calls[1].call = "viWrite"
    /\ lastOp.calls[1].data = closeCmd_ \o <<termChar_>>
    /\ \E j \in 2..Len(lastOp.calls) : lastOp.calls[j].call = "viClose"

\* all of a byte string but its last byte
ButLast(str) == SubSeq(str, 1, Len(str) - 1)

\* C11: the registered close command is changed only by onClose(); every
\* other operation leaves it unchanged, and every write a close() makes
\* carries the command registered before the call.
C11_CloseCmdChangedOnlyByOnClose ==
    [][/\ lastOp'.name \notin {"onClose", "onCloseList"}
             => closeCmd_' = closeCmd_
       /\ lastOp'.name = "close"
             => \A i \in Positions(lastOp'.calls, "viWrite") :
                    ButLast(lastOp'.calls[i].data) = closeCmd_]_vars

\* a close() has sent the registered command and the command is still
\* registered
C11_Witness ==
    /\ lastOp.name = "close" /\ lastOp.ret = TRUE
    /\ closeCmd_ # EmptyStr
    /\ \E i \in Positions(lastOp.calls, "viWrite") :
           Ok(lastOp.calls[i].st) /\ ButLast(lastOp.calls[i].data) = closeCmd_

\* the call log shows a device open that succeeded
OpenedDevice(calls) ==
    \E i \in Positions(calls, "viOpen") : Ok(calls[i].st)

\* C12: write(msg) on an open device makes exactly one driver write, of
\* len(msg)+1 bytes: the bytes of msg followed by one byte equal to the
\* terminator fetched by the open() that opened the device.  The last part
\* is stated for a write() that directly follows that open().
C12_WriteSendsMsgAndFetchedTerminator ==
    [][(DeviceOpen /\ initialized_ /\ lastOp'.name = "write") =>
          LET calls == lastOp'.calls
              msg == lastOp'.arg
              writes == Positions(calls, "viWrite")
          IN /\ Cardinality(writes) = 1
             /\ \A i \in writes :
                   /\ calls[i].h = device_
                   /\ Len(calls[i].data) = Len(msg) + 1
                   /\ ButLast(calls[i].data) = msg
                   /\ (lastOp.name = "open" /\ OpenedDevice(lastOp.calls))
                        => \E j \in Positions(lastOp.calls, "viGetAttribute") :
                             /\ Ok(lastOp.calls[j].st)
                             /\ lastOp.calls[j].data
                                   = <<calls[i].data[Len(msg) + 1]>>]_vars

RECURSIVE Flatten(_)
\* the concatenation of a sequence of byte strings
Flatten(strs) ==
    IF strs = << >> THEN << >> ELSE Head(strs) \o Flatten(Tail(strs))

\* the elements of list, each but the last followed by ";" and the
\* terminator t, and the last followed by t alone
Framed(list, t) ==
    Flatten([i \in 1..Len(list) |->
                list[i] \o (IF i < Len(list) THEN <<SEMI, t>> ELSE << >>)])
        \o <<t>>

\* C13: write(sequence) on an open device makes exactly one driver write,
\* whose payload is the elements joined with ";" + terminator between them
\* and followed by one terminator byte; for ["A", "B"] and terminator 0x0A
\* the payload is "A;\nB\n".
C13_ListWrittenAsOneFramedMessage ==
    (lastOp.name = "writeList" /\ DeviceOpen /\ initialized_) =>
        LET calls == lastOp.calls
            writes == Positions(calls, "viWrite")
        IN /\ Cardinality(writes) = 1
           /\ \A i \in writes :
                 /\ calls[i].h = device_
                 /\ calls[i].data = Framed(lastOp.arg, termChar_)
                 /\ (lastOp.arg = <<(<<65>>), (<<66>>)>> /\ termChar_ = LF)
                      => calls[i].data = <<65, 59, 10, 66, 10>>

C13_Witness ==
    /\ lastOp.name = "writeList" /\ lastOp.ret = TRUE
    /\ DeviceOpen /\ initialized_ /\ termChar_ = LF
    /\ lastOp.arg = <<(<<65>>), (<<66>>)>>
    /\ lastOp.calls = <<Call("viWrite", device_, <<65, 59, 10, 66, 10>>,
                            VI_SUCCESS)>>

\* the calls of a log that belong to a set of names, in order
Only(calls, names) == SelectSeq(calls, LAMBDA e : e.call \in names)

\* C14: whenever the write issued by query(msg) fails, because the driver
\* fails or because the write is not attempted, query performs no delay,
\* makes no driver read and returns the empty string.
C14_FailedQueryWriteSkipsDelayAndRead ==
    (lastOp.name = "query" /\ NoWriteSucceeded(lastOp.calls)) =>
        /\ Positions(lastOp.calls, "sleep") = {}
        /\ Positions(lastOp.calls, "viRead") = {}
        /\ lastOp.ret = EmptyStr

\* a query whose write the driver failed
C14_Witness ==
    /\ lastOp.name = "query" /\ lastOp.ret = EmptyStr
    /\ \E i \in Positions(lastOp.calls, "viWrite") : ~Ok(lastOp.calls[i].st)

\* C15: whenever the write issued by query(msg) succeeds, the query makes one
\* driver write, then one delay of timeout_ milliseconds, then one driver
\* read, in that order, and no other write, delay or read.
C15_QueryWriteDelayRead ==
    (lastOp.name = "query" /\ ~NoWriteSucceeded(lastOp.calls)) =>
        LET ev == Only(lastOp.calls, {"viWrite", "sleep", "viRead"})
        IN /\ Len(ev) = 3
           /\ ev[1].call = "viWrite" /\ ev[1].h = device_
           /\ ev[2].call = "sleep" /\ ev[2].h = timeout_
           /\ ev[3].call = "viRead" /\ ev[3].h = device_

\* a query that wrote, waited and read a reply
C15_Witness ==
    /\ lastOp.name = "query" /\ lastOp.ret \in Replies
    /\ timeout_ \in Timeouts
    /\ Len(lastOp.calls) = 3
    /\ lastOp.calls[2] = Call("sleep", timeout_, EmptyStr, VI_SUCCESS)

\* C16: getLastError() returns the stored description and clears it: when
\* the operation before it ended with a failed driver call it returns the
\* description of that failure, and a getLastError() that directly follows
\* another returns the empty string.
C16_GetLastErrorIsDestructiveRead ==
    [][lastOp'.name = "getLastError" =>
          /\ lastOp'.ret = lastError_
          /\ lastError_' = ""
          /\ (lastOp.name \in CoreOps /\ lastOp.calls # << >>
                /\ lastOp.calls[Len(lastOp.calls)].call = "viStatusDesc")
               => lastOp'.ret
                    = StatusDesc(lastOp.calls[Len(lastOp.calls)].st)
          /\ lastOp.name = "getLastError" => lastOp'.ret = ""]_vars

\* a getLastError() that returned a description and left none
C16_Witness ==
    /\ lastOp.name = "getLastError"
    /\ lastOp.ret = StatusDesc(-1)
    /\ lastError_ = ""

AllCallsSucceeded(calls) == \A i \in 1..Len(calls) : Ok(calls[i].st)

\* C17: every core operation whose driver calls all succeed leaves
\* lastError_ as it was, and lastError_ becomes empty only through
\* getLastError().
C17_SuccessLeavesLastError ==
    [][/\ (lastOp'.name \in CoreOps /\ AllCallsSucceeded(lastOp'.calls))
            => lastError_' = lastError_
       /\ (lastError_ # "" /\ lastError_' = "")
            => lastOp'.name = "getLastError"]_vars

\* an operation whose driver calls all succeeded, with an earlier error
\* still stored
C17_Witness ==
    /\ lastOp.name \in CoreOps
    /\ lastOp.calls # << >> /\ AllCallsSucceeded(lastOp.calls)
    /\ MadeDriverCall(lastOp.calls)
    /\ lastError_ # ""

OpenOnlyOps ==
    {"write", "writeList", "read", "query", "setAttribute",
     "getScalarAttribute", "getStringAttribute", "getDeviceDescription"}

\* C18: when isOpen() is false, write, read, query, setAttribute,
\* getScalarAttribute, getStringAttribute and getDeviceDescription return
\* their failure value, make no driver call and leave lastError_ unchanged.
C18_ClosedOpsShortCircuit ==
    [][(~open_ /\ lastOp'.name \in OpenOnlyOps) =>
          /\ lastOp'.ret = FailureValue(lastOp'.name)
          /\ lastOp'.calls = << >>
          /\ lastError_' = lastError_]_vars

\* a read on an initialized core with no device open, an error stored
C18_Witness ==
    /\ initialized_ /\ ~open_
    /\ lastOp.name = "read" /\ lastOp.ret = EmptyStr /\ lastOp.calls = << >>
    /\ lastError_ # ""

\* the discovery call of a findInstruments log failed or reported no match
DiscoveryFoundNothing(calls) ==
    /\ calls # << >>
    /\ calls[1].call = "viFindRsrc"
    /\ (~Ok(calls[1].st) \/ calls[1].data = EmptyStr)

\* C19: findInstruments on an initialized session returns the empty sequence
\* whenever the discovery call fails or reports no matches, and the call
\* ends normally (no access outside the result sequence ends the run).
C19_EmptyResultOnFailureOrNoMatch ==
    (lastOp.name = "findInstruments" /\ initialized_
       /\ DiscoveryFoundNothing(lastOp.calls))
        => /\ lastOp.ret = << >>
           /\ Positions(lastOp.calls, "abort") = {}

\* C20: when discovery reports matches, findInstruments returns exactly the
\* identifiers the driver reported before the first failed find-next step,
\* in discovery order.
C20_PartialResultsAreReportedIdentifiers ==
    (lastOp.name = "findInstruments" /\ lastOp.calls # << >>
       /\ ~DiscoveryFoundNothing(lastOp.calls))
        => LET got == SelectSeq(Only(lastOp.calls,
                                     {"viFindRsrc", "viFindNext"}),
                                LAMBDA e : Ok(e.st))
           IN lastOp.ret = [i \in 1..Len(got) |-> got[i].data]

\* C21: read(bufferSize) on an open device makes exactly one driver read and
\* returns exactly the bytes the driver reported as received, at most
\* bufferSize of them; on a failed driver read it returns the empty string.
C21_ReadReturnsReceivedBytes ==
    (lastOp.name = "read" /\ DeviceOpen /\ initialized_) =>
        LET calls == lastOp.calls
            reads == Positions(calls, "viRead")
        IN /\ Cardinality(reads) = 1
           /\ \A i \in reads :
                 /\ calls[i].h = device_
                 /\ IF Ok(calls[i].st)
                    THEN /\ lastOp.ret = calls[i].data
                         /\ Len(lastOp.ret) <= lastOp.arg
                    ELSE lastOp.ret = EmptyStr

\* a read into a buffer of one byte when the device had two bytes pending
C21_Witness ==
    /\ lastOp.name = "read" /\ lastOp.arg = 1 /\ DeviceOpen /\ initialized_
    /\ lastOp.ret = <<50>>
    /\ lastOp.calls = <<Call("viRead", device_, <<50>>, VI_SUCCESS)>>

\* C22: on teardown of a core whose session was acquired, the destructor
\* first closes an open device (the close command, then the release of the
\* device handle) and then attempts the release of the session; the session
\* release is attempted on every such teardown, whatever the outcome of the
\* device close.
C22_TeardownAlwaysReleasesSession ==
    [][(lastOp'.name = "~VISADevice" /\ Acquired /\ initialized_) =>
          LET calls == lastOp'.calls
              rel == {i \in Positions(calls, "viClose") :
                         calls[i].h = session_}
              dev == {i \in Positions(calls, "viClose") :
                         calls[i].h = device_}
          IN /\ Cardinality(rel) = 1
             /\ open_ => /\ Cardinality(dev) = 1
                         /\ \A j \in dev : \A i \in rel : j < i
                         /\ closeCmd_ # EmptyStr
                              => \E k \in Positions(calls, "viWrite") :
                                    /\ calls[k].data
                                          = closeCmd_ \o <<termChar_>>
                                    /\ \A j \in dev : k < j]_vars

\* C23: if session acquisition fails in the constructor, then right after
\* construction isInitialized() is false and isOpen() is false, and the
\* constructor made no driver call to describe the error.
C23_FailedAcquisitionLeavesCleanCore ==
    (lastOp.name = "VISADevice" /\ ~Ok(lastOp.calls[1].st)) =>
        /\ ~initialized_
        /\ ~open_
        /\ Positions(lastOp.calls, "viStatusDesc") = {}

\* C24: in every state before teardown isOpen() implies isInitialized(), and
\* a core whose session acquisition failed is neither initialized nor open.
C24_OpenImpliesInitialized ==
    lastOp.name # "~VISADevice" =>
        /\ open_ => initialized_
        /\ ~Acquired => (~initialized_ /\ ~open_)

\* the calls into the driver whose status processStatus translates
TranslatedCalls == (DriverCalls \ {"viStatusDesc"}) \cup {"viOpenDefaultRM"}

\* whether open_ was set when call i of a log was made, openBefore being
\* open_ when the operation began
OpenAt(calls, i, openBefore) ==
    IF \E j \in 1..(i - 1) : calls[j].call = "viOpen" /\ Ok(calls[j].st)
    THEN TRUE
    ELSE IF \E j \in 1..(i - 1) : calls[j].call = "viClose" /\ Ok(calls[j].st)
         THEN FALSE
         ELSE openBefore

\* call i of the log is followed by a request for the description of its
\* status, made on handle h
DescribedOn(calls, i, h) ==
    /\ i < Len(calls)
    /\ calls[i + 1] = Call("viStatusDesc", h, EmptyStr, calls[i].st)

NotDescribed(calls, i) ==
    i = Len(calls) \/ calls[i + 1].call # "viStatusDesc"

\* every status of the log was translated as C25 says, for a core whose
\* flags were openBefore and init when the operation began and whose handles
\* are dev and ses
Translated(calls, openBefore, init, dev, ses) ==
    \A i \in 1..Len(calls) :
        calls[i].call \in TranslatedCalls =>
            IF calls[i].st < 0
            THEN IF OpenAt(calls, i, openBefore)
                 THEN DescribedOn(calls, i, dev)
                 ELSE IF init THEN DescribedOn(calls, i, ses)
                      ELSE NotDescribed(calls, i)
            ELSE NotDescribed(calls, i)

\* the failed calls of a log
Failed(calls) ==
    {i \in 1..Len(calls) :
        calls[i].call \in TranslatedCalls /\ calls[i].st < 0}

\* the text processStatus stored for the last failed call of a log
LastDescription(calls, openBefore, init) ==
    LET i == CHOOSE k \in Failed(calls) : \A m \in Failed(calls) : m <= k
    IN IF OpenAt(calls, i, openBefore) \/ init
       THEN StatusDesc(calls[i].st) ELSE ERR_NEITHER

\* the last failed call of a log is the write of the close command, whose
\* description close() replaces by its warning
CloseCommandFailedLast(name, calls) ==
    LET i == CHOOSE k \in Failed(calls) : \A m \in Failed(calls) : m <= k
    IN name \in {"open", "close", "~VISADevice"} /\ calls[i].call = "viWrite"

\* the operations that return what processStatus returned
ReportingOps ==
    {"open", "write", "writeList", "setAttribute", "getScalarAttribute",
     "read", "query"}

\* C25 for the constructor
C25_Constructed ==
    lastOp.name = "VISADevice" =>
        /\ Translated(lastOp.calls, open_, initialized_, device_, session_)
        /\ IF Failed(lastOp.calls) # {}
           THEN lastError_ = LastDescription(lastOp.calls, open_, initialized_)
           ELSE initialized_ /\ lastError_ = ""

\* C25 for one operation
C25_Step ==
    LET calls == lastOp'.calls
    IN /\ Translated(calls, open_, initialized_, device_', session_)
       /\ Failed(calls) # {} =>
             /\ lastError_' = IF CloseCommandFailedLast(lastOp'.name, calls)
                               THEN WARN_CLOSE
                               ELSE LastDescription(calls, open_, initialized_)
             /\ lastOp'.name \in ReportingOps
                  => lastOp'.ret = FailureValue(lastOp'.name)
       /\ (lastOp'.name \in {"setAttribute", "getScalarAttribute"}
             /\ calls # << >> /\ Failed(calls) = {}) => lastOp'.ret = TRUE

\* C25: whenever a driver call returns a negative status, the description
\* is requested from the device handle if open_ is set, otherwise from the
\* session handle if initialized_ is set, otherwise no driver call is made
\* and lastError_ becomes the fixed text; in all three cases lastError_ is
\* overwritten and processStatus reports failure to its caller; a status that
\* is zero or positive is a success and no description is requested.
C25_StatusTranslation == []C25_Constructed /\ [][C25_Step]_vars

\* a setAttribute that failed on an open device, described by the device
C25_Witness ==
    /\ lastOp.name = "setAttribute" /\ lastOp.ret = FALSE
    /\ DeviceOpen /\ initialized_
    /\ lastOp.calls = <<Call("viSetAttribute", device_, EmptyStr, -1),
                        Call("viStatusDesc", device_, EmptyStr, -1)>>
    /\ lastError_ = StatusDesc(-1)

\* C26: the delay of a query() that directly follows the open() that opened
\* the device is the timeout passed to that open(), and an open() that fails
\* to open a device while a device is open leaves the delay query() uses for
\* that device, timeout_, unchanged.
C26_DelayIsTimeoutOfOpeningOpen ==
    [][/\ (lastOp.name = "open" /\ lastOp.ret = TRUE /\ DeviceOpen
            /\ lastOp'.name = "query"
            /\ ~NoWriteSucceeded(lastOp'.calls))
           => \A i \in Positions(lastOp'.calls, "sleep") :
                  lastOp'.calls[i].h = lastOp.arg
       /\ (DeviceOpen /\ lastOp'.name = "open"
            /\ ~OpenedDevice(lastOp'.calls))
           => (DeviceOpen' /\ device_' = device_ /\ timeout_' = timeout_)]_vars

\* the positions of a byte string that hold ";"
Semicolons(str) == {k \in 1..Len(str) : str[k] = SEMI}

\* C28: the close command written by close() on an open device separates its
\* commands with ";" followed by the terminator of the device being closed.
\* (No command of the model contains ";", so every ";" written is a
\* separator.)
C28_CloseCommandSeparator ==
    [][(DeviceOpen /\ initialized_ /\ lastOp'.name = "close") =>
          \A i \in Positions(lastOp'.calls, "viWrite") :
              LET data == lastOp'.calls[i].data
              IN /\ data[Len(data)] = termChar_
                 /\ \A k \in Semicolons(data) : data[k + 1] = termChar_]_vars

(***************************************************************************)
(* The adapter's callbacks and its channel state.                          *)
(***************************************************************************)
Callbacks == {"OnActiveChannel", "OnOutputVoltage", "OnOutputCurrent"}

IsTransfer(o) == o.op \in {"query", "write"}

IsWrite(o) == o.op \in {"write", "writeList"}

\* the core queries and writes of the last adapter call, in order
Transfers == SelectSeq(adapterOp.ops, IsTransfer)

\* a core query fails by returning the empty string, a core write by
\* returning false
OpFailed(o) == IF o.op = "query" THEN o.ret = EmptyStr ELSE ~o.ret

C29_Step ==
    /\ adapterOp'.name = "SetOpen" =>
           LET s == adapterOp'.arg
               w == SelectSeq(adapterOp'.ops, IsWrite)
           IN IF s = activeChannelState_
              THEN /\ Len(w) = 0
                   /\ adapterOp'.calls = << >>
                   /\ activeChannelState_' = activeChannelState_
              ELSE /\ Len(w) = 1
                   /\ (activeChannelState_' = s) <=> w[1].ret
                   /\ ~w[1].ret =>
                          /\ adapterOp'.ret = ERR_WRITE_FAILED
                          /\ activeChannelState_' = activeChannelState_
    /\ adapterOp'.name = "GetOpen" =>
           /\ adapterOp'.out = activeChannelState_
           /\ activeChannelState_' = activeChannelState_

C29_SetOpenTracksSuccessfulWrites == [][C29_Step]_vars

\* SetOpen(true) wrote to the open device and the tracked state became true
C29_Witness ==
    /\ adapterOp.name = "SetOpen"
    /\ adapterOp.arg = TRUE
    /\ Len(adapterOp.ops) = 1
    /\ adapterOp.ops[1].ret = TRUE
    /\ Len(adapterOp.calls) = 1
    /\ activeChannelState_ = TRUE

====
